---- MODULE Spec2Model ----
(***************************************************************************)
(* InstaSavePro backend: the page fetcher (robustFetchPage, tryFetch,      *)
(* fetchWithRetries), the video extractor (extractFromHtml and its older   *)
(* revisions) and the /api/getVideo handler that composes them.            *)
(*                                                                         *)
(* The repository holds four revisions of server.js:                       *)
(*   "server"    src/server.js           (cheerio extractor, host list)    *)
(*   "part_000"  src/unnamed/part_000    (fetchWithRetries, cheerio)       *)
(*   "part_001"  src/unnamed/part_001    (robustFetchPage, regex extractor)*)
(*   "part_002"  src/unnamed/part_002    (minimal)                         *)
(* A deployment runs one of them; rev names which.                         *)
(*                                                                         *)
(* Strings are sequences of tokens.  The token alphabet is chosen so that  *)
(* every string has exactly one tokenisation: "\\" is one backslash,       *)
(* "u0026" the five characters u0026, the other tokens are literal pieces  *)
(* that contain neither a backslash, a double quote nor "u0026".           *)
(***************************************************************************)
EXTENDS Integers, Sequences, FiniteSets, TLC

\* Longest HTML document, in nodes, that the extractor is applied to.
MaxNodes == 2

\* Most fetches other requests send while one text is extracted twice.
MaxOther == 1

\* Longest body, in bytes, that a media host streams.
MaxBody == 2

Max(S) == CHOOSE x \in S : \A y \in S : y <= x
Min(S) == CHOOSE x \in S : \A y \in S : x <= y
Last(s) == s[Len(s)]

----------------------------------------------------------------------------
(* Strings                                                                 *)

\* "https://host/<name>"
Abs(name) == <<"https:", "/", "/", "host", "/", name>>
\* The same URL as a JSON serialiser writes it: https:\/\/host\/<name>?x=1&y=2
AbsEscaped(name) ==
  <<"https:", "\\", "/", "\\", "/", "host", "\\", "/", name, "?x=1", "\\", "u0026", "y=2">>
\* ... and what it denotes: https://host/<name>?x=1&y=2
AbsQuery(name) == <<"https:", "/", "/", "host", "/", name, "?x=1", "&", "y=2">>
\* A JSON string whose backslash is itself escaped, as in JSON embedded in
\* JSON: https://host/<name>?x=1\\u0026y=2 , which denotes ...?x=1\u0026y=2
AbsTwiceEscaped(name) ==
  <<"https:", "/", "/", "host", "/", name, "?x=1", "\\", "\\", "u0026", "y=2">>
\* "/<name>": a path, no scheme
Rel(name) == <<"/", name>>
\* "HTTPS://host/<name>": absolute, upper-case scheme
AbsUpper(name) == <<"HTTPS:", "/", "/", "host", "/", name>>

\* String.prototype.startsWith('http')
startsWithHttp(s) == s # <<>> /\ s[1] = "https:"

\* s.replace(/\\u0026/g, "&")
RECURSIVE replaceU0026(_)
replaceU0026(s) ==
  IF s = <<>> THEN <<>>
  ELSE IF Len(s) >= 2 /\ s[1] = "\\" /\ s[2] = "u0026"
       THEN <<"&">> \o replaceU0026(SubSeq(s, 3, Len(s)))
       ELSE <<s[1]>> \o replaceU0026(Tail(s))

\* s.replace(/\\/g, "")
stripBackslashes(s) == SelectSeq(s, LAMBDA c : c # "\\")

\* part_001: decodeEscapes; the same two replaces are inlined in the raw
\* video_url strategy of server.js and part_000.
decodeEscapes(s) == stripBackslashes(replaceU0026(s))

----------------------------------------------------------------------------
(* JavaScript values as JSON.parse produces them                           *)

JUndef == [t |-> "undefined"]
JNull == [t |-> "null"]
JStr(s) == [t |-> "string", s |-> s]
JNum(n) == [t |-> "number", n |-> n]
JArr(a) == [t |-> "array", a |-> a]
\* m: the members in source order, each <<key, value>>
JObj(m) == [t |-> "object", m |-> m]
\* a TypeError raised while evaluating an expression
Thrown == [t |-> "throw"]

Nullish(v) == v.t \in {"undefined", "null"}

\* JavaScript truthiness
Truthy(v) ==
  CASE v.t \in {"undefined", "null", "throw"} -> FALSE
    [] v.t = "string" -> v.s # <<>>
    [] v.t = "number" -> v.n # 0
    [] OTHER -> TRUE

\* v.k : a TypeError on null and undefined, the member of an object (the
\* last one of that name), undefined on anything else
Prop(v, k) ==
  IF v.t = "throw" \/ Nullish(v) THEN Thrown
  ELSE IF v.t = "object"
       THEN LET idx == {j \in 1..Len(v.m) : v.m[j][1] = k}
            IN IF idx = {} THEN JUndef ELSE v.m[Max(idx)][2]
       ELSE JUndef

\* v?.k
OptProp(v, k) == IF Nullish(v) THEN JUndef ELSE Prop(v, k)

\* v?.[0] ; the first character of a string has no members of its own, so
\* it is undefined for every use the extractors make of it
OptFirst(v) ==
  IF Nullish(v) \/ v.t = "throw" THEN (IF v.t = "throw" THEN Thrown ELSE JUndef)
  ELSE IF v.t = "array" /\ Len(v.a) >= 1 THEN v.a[1]
  ELSE JUndef

\* Object.values(v) for a truthy v
ObjectValues(v) ==
  IF v.t = "object" THEN [j \in 1..Len(v.m) |-> v.m[j][2]]
  ELSE IF v.t = "array" THEN v.a
  ELSE <<>>

(* JSON text: the tree it spells, its strings still escaped, and whether   *)
(* the text around the tree is well formed.                                *)
JsonText(wellformed, tree) == [wellformed |-> wellformed, tree |-> tree]

\* a JSON string's escapes: \/ \\ and & are the ones the alphabet can
\* spell; a backslash before anything else is a syntax error
RECURSIVE jsonStringValid(_)
jsonStringValid(s) ==
  IF s = <<>> THEN TRUE
  ELSE IF s[1] = "\\"
       THEN Len(s) >= 2 /\ s[2] \in {"/", "\\", "u0026"}
            /\ jsonStringValid(SubSeq(s, 3, Len(s)))
       ELSE jsonStringValid(Tail(s))

RECURSIVE jsonUnescape(_)
jsonUnescape(s) ==
  IF s = <<>> THEN <<>>
  ELSE IF s[1] = "\\" /\ Len(s) >= 2
       THEN <<(IF s[2] = "u0026" THEN "&" ELSE s[2])>> \o jsonUnescape(SubSeq(s, 3, Len(s)))
       ELSE <<s[1]>> \o jsonUnescape(Tail(s))

RECURSIVE treeValid(_)
treeValid(v) ==
  CASE v.t = "string" -> jsonStringValid(v.s)
    [] v.t = "array" -> \A j \in 1..Len(v.a) : treeValid(v.a[j])
    [] v.t = "object" -> \A j \in 1..Len(v.m) : treeValid(v.m[j][2])
    [] OTHER -> TRUE

RECURSIVE treeValue(_)
treeValue(v) ==
  CASE v.t = "string" -> JStr(jsonUnescape(v.s))
    [] v.t = "array" -> JArr([j \in 1..Len(v.a) |-> treeValue(v.a[j])])
    [] v.t = "object" -> JObj([j \in 1..Len(v.m) |-> <<v.m[j][1], treeValue(v.m[j][2])>>])
    [] OTHER -> v

\* JSON.parse(text): ok, or a SyntaxError
JSONparse(text) ==
  IF text.wellformed /\ treeValid(text.tree)
  THEN [ok |-> TRUE, value |-> treeValue(text.tree)]
  ELSE [ok |-> FALSE, value |-> Thrown]

\* The raw (still escaped) text of every  "key":"..."  in a JSON text, in
\* text order: what a regex over the text sees.
RECURSIVE rawFields(_, _)
RECURSIVE rawFieldsOfMembers(_, _, _)
RECURSIVE rawFieldsOfItems(_, _, _)
rawFieldsOfMembers(m, j, key) ==
  IF j > Len(m) THEN <<>>
  ELSE (IF m[j][1] = key /\ m[j][2].t = "string" THEN <<m[j][2].s>> ELSE <<>>)
       \o rawFields(m[j][2], key) \o rawFieldsOfMembers(m, j + 1, key)
rawFieldsOfItems(a, j, key) ==
  IF j > Len(a) THEN <<>>
  ELSE rawFields(a[j], key) \o rawFieldsOfItems(a, j + 1, key)
rawFields(v, key) ==
  CASE v.t = "object" -> rawFieldsOfMembers(v.m, 1, key)
    [] v.t = "array" -> rawFieldsOfItems(v.a, 1, key)
    [] OTHER -> <<>>

----------------------------------------------------------------------------
(* HTML documents: a sequence of the nodes the extractors look at          *)

\* <meta property="p" content="c">
Meta(p, c) == [tag |-> "meta", property |-> p, content |-> c]

\* <script type="application/ld+json">text</script>
LdScript(text) ==
  [tag |-> "script", type |-> "application/ld+json", assign |-> "", text |-> text, tail |-> "none"]

(* <script>assign = text TAIL</script>, where TAIL is                      *)
(*   "semi"  ";"                                                           *)
(*   "none"  nothing: the object literal ends the script                   *)
(*   "more"  ";" and a second statement that ends in "};"                  *)
JsScript(assign, text, tail) ==
  [tag |-> "script", type |-> "", assign |-> assign, text |-> text, tail |-> tail]

IsMeta(n, p) == n.tag = "meta" /\ n.property = p
IsLdScript(n) == n.tag = "script" /\ n.type = "application/ld+json"
IsSharedScript(n) == n.tag = "script" /\ n.assign = "window._sharedData"
\* the node's text holds the two characters "};"
HasBraceSemi(n) == n.tag = "script" /\ n.tail \in {"semi", "more"}

\* the page-state object Instagram embeds
Media(members) == JObj(members)
Page(media) == JObj(<< <<"graphql", JObj(<< <<"shortcode_media", media>> >>)>> >>)
Shared(entries) == JObj(<< <<"entry_data", JObj(entries)>> >>)

MediaVideo == Media(<< <<"video_url", JStr(AbsEscaped("sd.mp4"))>> >>)
MediaImage ==
  Media(<< <<"display_resources",
             JArr(<< JObj(<< <<"src", JStr(AbsEscaped("sd-small.jpg"))>> >>),
                     JObj(<< <<"src", JStr(AbsEscaped("sd-large.jpg"))>> >>) >>)>> >>)
MediaBadResources == Media(<< <<"display_resources", JNum(5)>> >>)

SharedVideo == Shared(<< <<"PostPage", JArr(<<Page(MediaVideo)>>)>> >>)
SharedImage == Shared(<< <<"PostPage", JArr(<<Page(MediaImage)>>)>> >>)
SharedProfileFirst ==
  Shared(<< <<"ProfilePage", JArr(<<JObj(<< <<"graphql", JObj(<< >>)>> >>)>>)>>,
            <<"PostPage", JArr(<<Page(MediaVideo)>>)>> >>)
SharedBadResources == Shared(<< <<"PostPage", JArr(<<Page(MediaBadResources)>>)>> >>)
SharedNoEntry == JObj(<< <<"config", JNull>> >>)

MetaNodes ==
  { Meta("og:video", Abs("og.mp4")),
    Meta("og:video", Rel("og.mp4")),
    Meta("og:video", AbsUpper("og.mp4")),
    Meta("og:video", <<>>),
    Meta("og:video:secure_url", Abs("sec.mp4")),
    Meta("og:image", Abs("t.jpg")) }

LdNodes ==
  { LdScript(JsonText(TRUE, JObj(<< <<"contentUrl", JStr(AbsEscaped("ld.mp4"))>> >>))),
    LdScript(JsonText(TRUE, JObj(<< <<"contentUrl", JStr(Rel("ld.mp4"))>> >>))),
    LdScript(JsonText(TRUE, JObj(<< <<"contentUrl", JStr(AbsTwiceEscaped("ld.mp4"))>> >>))),
    LdScript(JsonText(TRUE, JObj(<< <<"@type", JStr(<<"ImageObject">>)>> >>))),
    LdScript(JsonText(TRUE, JNull)),
    LdScript(JsonText(FALSE, JObj(<< <<"contentUrl", JStr(AbsEscaped("ld.mp4"))>> >>))) }

SharedNodes ==
  { JsScript("window._sharedData", JsonText(TRUE, SharedVideo), "semi"),
    JsScript("window._sharedData", JsonText(TRUE, SharedVideo), "none"),
    JsScript("window._sharedData", JsonText(TRUE, SharedVideo), "more"),
    JsScript("window._sharedData", JsonText(FALSE, SharedVideo), "semi"),
    JsScript("window._sharedData", JsonText(TRUE, SharedImage), "semi"),
    JsScript("window._sharedData", JsonText(TRUE, SharedProfileFirst), "semi"),
    JsScript("window._sharedData", JsonText(TRUE, SharedBadResources), "semi"),
    JsScript("window._sharedData", JsonText(TRUE, SharedNoEntry), "semi") }

RawNodes ==
  { JsScript("window.__additionalData",
             JsonText(TRUE, JObj(<< <<"video_url", JStr(AbsEscaped("raw.mp4"))>> >>)), "semi"),
    JsScript("window.__additionalData",
             JsonText(TRUE, JObj(<< <<"video_url", JStr(<<>>)>> >>)), "semi"),
    JsScript("window.__additionalData",
             JsonText(TRUE, JObj(<< <<"display_url", JStr(AbsEscaped("d.jpg"))>> >>)), "semi") }

Nodes == MetaNodes \cup LdNodes \cup SharedNodes \cup RawNodes

\* every document of at most MaxNodes nodes; <<>> is the empty string
Docs == UNION {[1..n -> Nodes] : n \in 0..MaxNodes}

\* index of the first node of html that satisfies P, 0 when there is none
FirstIdx(html, P(_)) ==
  LET S == {j \in 1..Len(html) : P(html[j])} IN IF S = {} THEN 0 ELSE Min(S)

\* the raw text of every "key":"..." of the document, in text order
RECURSIVE htmlRawFields(_, _)
htmlRawFields(html, key) ==
  IF html = <<>> THEN <<>>
  ELSE (IF html[1].tag = "script" THEN rawFields(html[1].text.tree, key) ELSE <<>>)
       \o htmlRawFields(Tail(html), key)

\* what one extraction strategy yields; Threw is an exception that leaves it
Miss == [hit |-> FALSE, v |-> JUndef]
Hit(v) == [hit |-> TRUE, v |-> v]
Threw == [hit |-> FALSE, v |-> Thrown]

\* a try block whose exception is passed on
catch_rethrow(v) == v

\* try { ... } catch (e) {}: the exception is dropped and the block has
\* given nothing
catch(v) == IF v.t = "throw" THEN JUndef ELSE v

\* if (c) return { video: c }, with c the value the guarded block gave
Outcome(c) == IF Truthy(c) THEN Hit(c) ELSE IF c.t = "throw" THEN Threw ELSE Miss

\* what an extractor returns: null, or {video, thumbnail}; strategy numbers
\* the return statement that produced it (0: the last one)
ReturnNull == [isNull |-> TRUE, video |-> JUndef, thumbnail |-> JUndef, strategy |-> 0]
ReturnVideo(v, k) == [isNull |-> FALSE, video |-> v, thumbnail |-> JUndef, strategy |-> k]
ReturnThumbnail(th) == [isNull |-> FALSE, video |-> JNull, thumbnail |-> th, strategy |-> 0]

\* arr.slice(-1)[0]?.src after display_resources?. ; optionalCall is the
\* slice?.( of server.js
lastSrc(dr, optionalCall) ==
  IF Nullish(dr) THEN JUndef
  ELSE IF dr.t = "array"
       THEN (IF dr.a = <<>> THEN JUndef ELSE OptProp(Last(dr.a), "src"))
  ELSE IF dr.t = "string" THEN JUndef
  ELSE IF optionalCall THEN JUndef ELSE Thrown

\* post?.video_url || post?.display_resources?.slice(-1)[0]?.src
videoUrlOf(post, optionalCall) ==
  LET vu == OptProp(post, "video_url")
  IN IF Truthy(vu) THEN vu ELSE lastSrc(OptProp(post, "display_resources"), optionalCall)

----------------------------------------------------------------------------
(* The extractor of part_001 (regular expressions over the text)           *)

\* first  <meta property="p" content="([^"]+)"  of the text
metaMatch(html, p) == FirstIdx(html, LAMBDA n : IsMeta(n, p) /\ n.content # <<>>)

\* 1) og:video, else og:video:secure_url; the value goes through decodeEscapes
ogMatch(html) ==
  LET a == metaMatch(html, "og:video")
      b == metaMatch(html, "og:video:secure_url")
  IN IF a # 0 THEN Hit(JStr(decodeEscapes(html[a].content)))
     ELSE IF b # 0 THEN Hit(JStr(decodeEscapes(html[b].content)))
     ELSE Miss

\* the try block: JSON.parse(text), then parsed && parsed.contentUrl
contentUrlOf_try(text) ==
  LET parsed == JSONparse(text)
  IN IF ~parsed.ok THEN Thrown
     ELSE IF Truthy(parsed.value) THEN Prop(parsed.value, "contentUrl")
     ELSE JUndef

\* parsed && parsed.contentUrl, inside try/catch
contentUrlOf(text) == Outcome(catch(contentUrlOf_try(text)))

\* 2) the first ld+json script block
ldMatch(html) ==
  LET k == FirstIdx(html, IsLdScript)
  IN IF k = 0 THEN Miss ELSE contentUrlOf(html[k].text)

(* /window\._sharedData\s*=\s*(\{.*?\});/s over the whole text: from the   *)
(* first assignment, lazily to the first "};" after it.  That is the       *)
(* object literal when the assignment ends in ";", text that runs into a   *)
(* later script when it does not (JSON.parse then throws), and no match    *)
(* when no "};" follows at all.                                            *)
sharedCapture(html) ==
  LET k == FirstIdx(html, IsSharedScript)
  IN IF k = 0 THEN [matched |-> FALSE, text |-> JsonText(FALSE, JNull)]
     ELSE IF HasBraceSemi(html[k]) THEN [matched |-> TRUE, text |-> html[k].text]
     ELSE IF \E j \in (k + 1)..Len(html) : HasBraceSemi(html[j])
          THEN [matched |-> TRUE, text |-> JsonText(FALSE, html[k].text.tree)]
          ELSE [matched |-> FALSE, text |-> JsonText(FALSE, JNull)]

\* the two nested try blocks of 3): JSON.parse, then entry_data -> first
\* value -> [0] -> graphql.shortcode_media
sharedMatch_try(html) ==
  LET m == sharedCapture(html)
      parsed == JSONparse(m.text)
      entry == IF parsed.ok THEN OptProp(parsed.value, "entry_data") ELSE JUndef
      values == ObjectValues(entry)
      postPage == IF values = <<>> THEN JUndef ELSE values[1]
      postObj == OptProp(OptProp(OptFirst(postPage), "graphql"), "shortcode_media")
  IN IF ~m.matched THEN JUndef
     ELSE IF ~parsed.ok THEN Thrown
     ELSE IF ~Truthy(entry) THEN JUndef
     ELSE catch(videoUrlOf(postObj, FALSE))

\* 3) window._sharedData
sharedMatch(html) == Outcome(catch(sharedMatch_try(html)))

\* first  "key":"([^"]+)"  of the text
rawMatch(html, key) ==
  LET all == htmlRawFields(html, key)
      k == FirstIdx(all, LAMBDA raw : raw # <<>>)
  IN IF k = 0 THEN Miss ELSE Hit(JStr(all[k]))

\* 4) "video_url":"..." anywhere, decoded
simpleVideoMatch(html) ==
  LET m == rawMatch(html, "video_url")
  IN IF m.hit THEN Hit(JStr(decodeEscapes(m.v.s))) ELSE Miss

\* 5) og:image, else "display_url":"..."
thumbMatch(html) ==
  LET a == metaMatch(html, "og:image")
      d == rawMatch(html, "display_url")
  IN IF a # 0 THEN JStr(decodeEscapes(html[a].content))
     ELSE IF d.hit THEN JStr(decodeEscapes(d.v.s))
     ELSE JNull

\* an extractor that scans for a raw "video_url" before it walks _sharedData
extractFromHtml_rawFirst(html) ==
  IF html = <<>> THEN ReturnNull
  ELSE IF ogMatch(html).hit THEN ReturnVideo(ogMatch(html).v, 1)
  ELSE IF ldMatch(html).hit THEN ReturnVideo(ldMatch(html).v, 2)
  ELSE IF simpleVideoMatch(html).hit THEN ReturnVideo(simpleVideoMatch(html).v, 4)
  ELSE IF sharedMatch(html).hit THEN ReturnVideo(sharedMatch(html).v, 3)
  ELSE ReturnThumbnail(thumbMatch(html))

extractFromHtml_part_001(html) ==
  IF html = <<>> THEN ReturnNull
  ELSE IF ogMatch(html).hit THEN ReturnVideo(ogMatch(html).v, 1)
  ELSE IF ldMatch(html).hit THEN ReturnVideo(ldMatch(html).v, 2)
  ELSE IF sharedMatch(html).hit THEN ReturnVideo(sharedMatch(html).v, 3)
  ELSE IF simpleVideoMatch(html).hit THEN ReturnVideo(simpleVideoMatch(html).v, 4)
  ELSE ReturnThumbnail(thumbMatch(html))

----------------------------------------------------------------------------
(* The extractor of server.js (cheerio)                                    *)

\* $('meta[property="p"]').attr('content'): of the first such element
metaAttr(html, p) ==
  LET k == FirstIdx(html, LAMBDA n : IsMeta(n, p))
  IN IF k = 0 THEN JUndef ELSE JStr(html[k].content)

\* 1) og:video || og:video:secure_url, accepted when it starts with 'http'
ogVideo(html) ==
  LET a == metaAttr(html, "og:video")
      c == IF Truthy(a) THEN a ELSE metaAttr(html, "og:video:secure_url")
  IN IF Truthy(c) /\ startsWithHttp(c.s) THEN Hit(c) ELSE Miss

\* 2) $('script[type="application/ld+json"]').html(): the first one
ld(html) == ldMatch(html)

(* scriptText.match(/window\._sharedData\s*=\s*(\{.*\});?/s): greedy, to   *)
(* the last "}" of the script, so a second statement is captured too.      *)
sharedText_server(n) ==
  IF n.tail = "more" THEN JsonText(FALSE, n.text.tree) ELSE n.text

\* the for loop over Object.values(entry): the first array whose first
\* entry gives a video url
RECURSIVE firstPostVideo(_)
firstPostVideo(values) ==
  IF values = <<>> THEN JUndef
  ELSE LET v == values[1]
           post == IF v.t = "array"
                   THEN OptProp(OptProp(OptFirst(v), "graphql"), "shortcode_media")
                   ELSE JUndef
           videoUrl == videoUrlOf(post, TRUE)
       IN IF v.t = "array" /\ Truthy(videoUrl) THEN videoUrl ELSE firstPostVideo(Tail(values))

\* the try blocks inside the callback: JSON.parse, then the loop
foundIn_server_try(n) ==
  LET parsed == JSONparse(sharedText_server(n))
      entry == IF parsed.ok THEN OptProp(parsed.value, "entry_data") ELSE JUndef
  IN IF ~IsSharedScript(n) THEN JUndef
     ELSE IF ~parsed.ok THEN Thrown
     ELSE IF ~Truthy(entry) THEN JUndef
     ELSE catch(firstPostVideo(ObjectValues(entry)))

\* what one script contributes to found
foundIn_server(n) == catch(foundIn_server_try(n))

\* 3) $('script').each(...): a later script overwrites found
found(html) ==
  LET S == {j \in 1..Len(html) : html[j].tag = "script" /\ Truthy(foundIn_server(html[j]))}
  IN IF \E j \in 1..Len(html) : html[j].tag = "script" /\ foundIn_server(html[j]).t = "throw"
     THEN Threw
     ELSE IF S = {} THEN Miss ELSE Hit(foundIn_server(html[Max(S)]))

\* 4) html.match(/"video_url":"([^"]+)"/), both replaces applied
simpleMatch(html) == simpleVideoMatch(html)

extractFromHtml(html) ==
  IF ogVideo(html).hit THEN ReturnVideo(ogVideo(html).v, 1)
  ELSE IF ld(html).hit THEN ReturnVideo(ld(html).v, 2)
  ELSE IF found(html).hit THEN ReturnVideo(found(html).v, 3)
  ELSE IF simpleMatch(html).hit THEN ReturnVideo(simpleMatch(html).v, 4)
  ELSE ReturnNull

----------------------------------------------------------------------------
(* The extractor of part_000 (cheerio)                                     *)

\* s.match(/window\._sharedData\s*=\s*(\{.*\});/s): greedy to the last "};"
\* of the script, and no match without one
sharedCapture_part_000(n) ==
  IF n.tail = "none" THEN [matched |-> FALSE, text |-> JsonText(FALSE, JNull)]
  ELSE IF n.tail = "more" THEN [matched |-> TRUE, text |-> JsonText(FALSE, n.text.tree)]
  ELSE [matched |-> TRUE, text |-> n.text]

\* the try block: parsed?.entry_data?.PostPage?.[0]?.graphql?.shortcode_media
foundIn_part_000_try(n) ==
  LET m == sharedCapture_part_000(n)
      parsed == JSONparse(m.text)
      shortcode_media ==
        IF parsed.ok
        THEN OptProp(OptProp(OptFirst(OptProp(OptProp(parsed.value, "entry_data"), "PostPage")),
                             "graphql"), "shortcode_media")
        ELSE JUndef
      vu == IF Truthy(shortcode_media) THEN Prop(shortcode_media, "video_url") ELSE JUndef
      v == IF Truthy(vu) THEN vu
           ELSE IF Truthy(shortcode_media)
                THEN lastSrc(Prop(shortcode_media, "display_resources"), FALSE)
                ELSE JUndef
  IN IF ~(IsSharedScript(n) /\ m.matched) THEN JUndef
     ELSE IF ~parsed.ok THEN Thrown
     ELSE v

\* what one script contributes to found
foundIn_part_000(n) == catch(foundIn_part_000_try(n))

found_part_000(html) ==
  LET S == {j \in 1..Len(html) : html[j].tag = "script" /\ Truthy(foundIn_part_000(html[j]))}
  IN IF \E j \in 1..Len(html) : html[j].tag = "script" /\ foundIn_part_000(html[j]).t = "throw"
     THEN Threw
     ELSE IF S = {} THEN Miss ELSE Hit(foundIn_part_000(html[Max(S)]))

extractVideoFromHtml(html) ==
  IF ogVideo(html).hit THEN ReturnVideo(ogVideo(html).v, 1)
  ELSE IF ld(html).hit THEN ReturnVideo(ld(html).v, 2)
  ELSE IF found_part_000(html).hit THEN ReturnVideo(found_part_000(html).v, 3)
  ELSE IF simpleMatch(html).hit THEN ReturnVideo(simpleMatch(html).v, 4)
  ELSE ReturnNull

----------------------------------------------------------------------------
(* The extractor of part_002                                               *)

\* $('meta[property="og:video"]').attr("content"), any truthy value
ogVideo_part_002(html) ==
  LET a == metaAttr(html, "og:video") IN IF Truthy(a) THEN Hit(a) ELSE Miss

\* the try block: parsed.contentUrl with no guard on parsed, so that null
\* raises a TypeError
ld_part_002_try(html) ==
  LET k == FirstIdx(html, IsLdScript)
  IN IF k = 0 THEN JUndef
     ELSE IF ~JSONparse(html[k].text).ok THEN Thrown
     ELSE Prop(JSONparse(html[k].text).value, "contentUrl")

ld_part_002(html) == Outcome(catch(ld_part_002_try(html)))

\* html.match(/"video_url":"(.*?)"/): the value may be empty, and only
\* & is replaced
script_part_002(html) ==
  LET all == htmlRawFields(html, "video_url")
  IN IF all = <<>> THEN Miss ELSE Hit(JStr(replaceU0026(all[1])))

\* the raw scan is this revision's third and last strategy
extractFromHtml_part_002(html) ==
  IF ogVideo_part_002(html).hit THEN ReturnVideo(ogVideo_part_002(html).v, 1)
  ELSE IF ld_part_002(html).hit THEN ReturnVideo(ld_part_002(html).v, 2)
  ELSE IF script_part_002(html).hit THEN ReturnVideo(script_part_002(html).v, 3)
  ELSE ReturnNull

----------------------------------------------------------------------------
(* The page fetcher and the /api/getVideo handler                          *)

VARIABLES
  rev,             \* the revision of server.js that is deployed
  PROXY_PROVIDER,  \* process.env.PROXY_PROVIDER || ""
  PROXY_KEY,       \* process.env.PROXY_KEY || ""
  igUrl,           \* (req.query.url || "").trim()
  pc,              \* the await the handler is suspended at
  i,               \* loop index: relay (robustFetchPage), try (fetchWithRetries)
  attempt,         \* retry index within one relay
  r,               \* what the last tryFetch / axios.get gave
  lastErr,         \* fetchWithRetries: the last error caught
  fetched,         \* what robustFetchPage / fetchWithRetries returned
  html,            \* the text handed to the extractor
  extractor,       \* which extractor ran
  extracted,       \* what it returned
  res,             \* the HTTP response sent
  inflight,        \* history: the requests issued and not yet answered
  log,             \* history: every fetch attempt issued, in order
  sleeps,          \* history: every backoff delay awaited, in ms
  outcome,         \* history: how the last finished attempt ended
  directOutcome,   \* history: how the last direct attempt ended
  rerun,           \* what the extractor returned when it ran again on html
  videoUrl,        \* /api/download: (req.query.video || "").trim()
  upstream,        \* /api/download: what the media host answers
  headers,         \* /api/download: the headers set on the response
  written,         \* /api/download: the body bytes written to the response
  aborted          \* the client closed the connection before the response ended

vars == <<rev, PROXY_PROVIDER, PROXY_KEY, igUrl, pc, i, attempt, r, lastErr, fetched,
          html, extractor, extracted, res, inflight, log, sleeps, outcome, directOutcome,
          rerun, videoUrl, upstream, headers, written, aborted>>

\* the configuration and the request never change
env == <<rev, PROXY_PROVIDER, PROXY_KEY, igUrl>>

\* what belongs to a /api/download request
download == <<videoUrl, upstream, headers, written>>

\* part_001: FREE_PROXIES, by the host each template fetches through
FREE_PROXIES == <<"api.allorigins.win", "r.jina.ai", "thingproxy.freeboard.io">>

Providers == {"", "ScraperAPI", "scrapingbee", "crawlbase"}
Keys == {"", "secret"}
toLowerCase(p) == IF p = "ScraperAPI" THEN "scraperapi" ELSE p

\* part_001: buildProviderProxyUrl, by the host of the URL it builds
buildProviderProxyUrl(provider, key, targetUrl) ==
  IF provider = "" \/ key = "" THEN "null"
  ELSE IF toLowerCase(provider) = "scraperapi" THEN "api.scraperapi.com"
  ELSE IF toLowerCase(provider) = "scrapingbee" THEN "app.scrapingbee.com"
  ELSE "null"

\* the url query parameter: its text, whether new URL() accepts it, and
\* the labels of its hostname
Url(text, parses, hostname) == [text |-> text, parses |-> parses, hostname |-> hostname]
Urls ==
  { Url("", FALSE, <<>>),
    Url("not a url", FALSE, <<>>),
    Url("https://evil.example/p/1", TRUE, <<"evil", "example">>),
    Url("https://www.instagram.com/p/1", TRUE, <<"www", "instagram", "com">>) }

\* hostname matches /instagram\.com$/i or includes 'instagram.com'
isInstagramHost(hostname) ==
  \E j \in 1..(Len(hostname) - 1) : hostname[j] = "instagram" /\ hostname[j + 1] = "com"

\* the pages an upstream may answer with; <<>> is an empty body
PageVideo == <<Meta("og:video", Abs("og.mp4")), Meta("og:image", Abs("t.jpg"))>>
PageImage == <<Meta("og:image", Abs("t.jpg"))>>
Bodies == {<<>>, PageVideo, PageImage}

\* how one axios request may end: a response, or no response at all
Response(status, data) == [kind |-> "response", status |-> status, data |-> data, code |-> ""]
Failure(code) == [kind |-> "error", status |-> 0, data |-> <<>>, code |-> code]
AxiosOutcomes ==
  {Response(s, d) : s \in {200, 401, 403, 404, 429}, d \in Bodies}
    \cup {Response(503, <<>>)}
    \cup {Failure("ECONNRESET"), Failure("ECONNABORTED")}
NoOutcome == [kind |-> "none", status |-> 0, data |-> <<>>, code |-> ""]
\* ECONNABORTED is what axios raises when its timeout expires
IsTimeout(o) == o.kind = "error" /\ o.code = "ECONNABORTED"
IsNetworkError(o) == o.kind = "error" /\ o.code = "ECONNRESET"

\* axios' default: only 2xx resolves
validateStatus_default(s) == s >= 200 /\ s < 300

\* validateStatus: (s) => s < 500, in tryFetch and in fetchWithRetries
validateStatus(s) == s < 500

\* axios.get resolves when it got a response whose status validates, and
\* rejects otherwise
axiosResolves(o) == o.kind = "response" /\ validateStatus(o.status)
axiosError(o) == IF o.kind = "response" THEN "ERR_BAD_RESPONSE" ELSE o.code

\* tryFetch that forgets to hand on resp.data
tryFetch_noData(o) ==
  IF o.kind = "response" /\ o.status < 500
  THEN [ok |-> TRUE, status |-> o.status, data |-> <<>>, err |-> ""]
  ELSE [ok |-> FALSE, status |-> 0, data |-> <<>>, err |-> "ERR"]

\* part_001: tryFetch: { ok: true, status, data } or { ok: false, err }
NoResult == [ok |-> FALSE, status |-> 0, data |-> <<>>, err |-> ""]
tryFetch(o) ==
  IF axiosResolves(o)
  THEN [ok |-> TRUE, status |-> o.status, data |-> o.data, err |-> ""]
  ELSE [ok |-> FALSE, status |-> 0, data |-> <<>>, err |-> axiosError(o)]

\* r.ok && r.status < 400 && r.data
succeeded(x) == x.ok /\ x.status < 400 /\ x.data # <<>>

\* one fetch attempt: the strategy, the host asked, the timeout in ms
Attempt(strategy, endpoint, timeout) ==
  [strategy |-> strategy, endpoint |-> endpoint, timeout |-> timeout]

\* what the fetcher gave its caller: html, or an error, returned or thrown
NotFetched == [html |-> <<>>, error |-> "", thrown |-> FALSE]
NoResponse == [status |-> 0, error |-> "", video |-> JUndef, thumbnail |-> JUndef]
NotExtracted == [isNull |-> TRUE, video |-> JUndef, thumbnail |-> JUndef, strategy |-> 0]

\* x || null
OrNull(x) == IF Truthy(x) THEN x ELSE JNull

\* res.status(s).json({ error, ... })
Json(status, error, video, thumbnail) ==
  [status |-> status, error |-> error, video |-> video, thumbnail |-> thumbnail]

\* part_001, /api/getVideo after robustFetchPage gave html
respond_part_001(e) ==
  IF e.isNull \/ ~Truthy(e.video)
  THEN Json(404, "Unable to extract video. Post may be private or not a video.",
            JUndef, OrNull(e.thumbnail))
  ELSE Json(200, "", e.video, OrNull(e.thumbnail))

\* part_000: $('meta[property="og:image"]').attr('content') || null
thumbnail_part_000(doc) == OrNull(metaAttr(doc, "og:image"))

\* part_000, /api/getVideo after fetchWithRetries gave a response
respond_part_000(resp, e) ==
  IF resp.status = 403 \/ resp.status = 429
  THEN Json(502, "Instagram blocked the request (403/429). Try again later or use a proxy.",
            JUndef, JUndef)
  ELSE IF resp.status = 404
  THEN Json(404, "Instagram post not found (404).", JUndef, JUndef)
  ELSE IF e.isNull \/ ~Truthy(e.video)
  THEN Json(404, "Could not extract video URL. The post may be image-only, private, or Instagram changed its structure.",
            JUndef, thumbnail_part_000(resp.data))
  ELSE Json(200, "", e.video, thumbnail_part_000(resp.data))

----------------------------------------------------------------------------
(* Steps.  JavaScript runs a handler from one await to the next without    *)
(* interruption, so each action is the code between two awaits.            *)

\* the request the handler is awaiting, which the step that resumes it has
\* just seen answered
Answered == IF pc \in {"provider", "direct", "relay", "axios"} THEN {Last(log)} ELSE {}

\* a request sent without awaiting the one before it
Issue_concurrent(a) ==
  /\ log' = Append(log, a)
  /\ inflight' = inflight \cup {a}

\* tryFetch / axios.get is called: the request goes out
Issue(a) ==
  /\ log' = Append(log, a)
  /\ inflight' = (inflight \ Answered) \cup {a}

\* the step issues no request
NoIssue ==
  /\ log' = log
  /\ inflight' = inflight \ Answered

\* robustFetchPage returns { html } and the handler of part_001 answers
ReturnHtml_part_001(data) ==
  /\ fetched' = [html |-> data, error |-> "", thrown |-> FALSE]
  /\ html' = data
  /\ extractor' = "part_001"
  /\ extracted' = extractFromHtml_part_001(data)
  /\ res' = respond_part_001(extractFromHtml_part_001(data))
  /\ pc' = "done"
  /\ NoIssue

\* robustFetchPage returns { error } and the handler of part_001 answers 502
ReturnError_part_001 ==
  /\ fetched' = [html |-> <<>>, error |-> "All fetch attempts failed", thrown |-> FALSE]
  /\ res' = Json(502, "Proxy fetch failed", JUndef, JUndef)
  /\ pc' = "done"
  /\ NoIssue
  /\ UNCHANGED <<html, extractor, extracted>>

\* step 2 of robustFetchPage is entered: tryFetch(url, {}, 15000)
IssueDirect ==
  /\ Issue(Attempt("direct", "origin", 15000))
  /\ pc' = "direct"
  /\ UNCHANGED <<fetched, html, extractor, extracted, res>>

\* tryFetch(FREE_PROXIES[k](url), {}, 20000), k counted from 0
IssueRelay(k) ==
  /\ Issue(Attempt("relay", FREE_PROXIES[k + 1], 20000))
  /\ pc' = "relay"
  /\ UNCHANGED <<fetched, html, extractor, extracted, res>>

\* step 1 of robustFetchPage is entered
IssueProvider(provUrl) ==
  /\ Issue(Attempt("provider", provUrl, 20000))
  /\ pc' = "provider"
  /\ UNCHANGED <<fetched, html, extractor, extracted, res>>

\* part_001, GET /api/getVideo up to the first await of robustFetchPage
GetVideo_part_001 ==
  /\ pc = "idle" /\ rev = "part_001"
  /\ IF igUrl.text = ""
     THEN /\ res' = Json(400, "Missing url query parameter", JUndef, JUndef)
          /\ pc' = "done"
          /\ NoIssue
          /\ UNCHANGED <<fetched, html, extractor, extracted>>
     ELSE LET provUrl == buildProviderProxyUrl(PROXY_PROVIDER, PROXY_KEY, igUrl)
          IN IF PROXY_PROVIDER # "" /\ PROXY_KEY # "" /\ provUrl # "null"
             THEN IssueProvider(provUrl)
             ELSE IssueDirect
  /\ UNCHANGED <<env, aborted, rerun, download, i, attempt, r, lastErr, sleeps, outcome, directOutcome>>

\* a provider step whose failure ends the fetch
robustFetchPage_provider_fatal ==
  /\ pc = "provider"
  /\ \E o \in AxiosOutcomes :
       /\ outcome' = o
       /\ r' = tryFetch(o)
       /\ IF succeeded(tryFetch(o))
          THEN ReturnHtml_part_001(tryFetch(o).data)
          ELSE ReturnError_part_001
  /\ UNCHANGED <<env, aborted, rerun, download, i, attempt, lastErr, sleeps, directOutcome>>

\* 1) the paid provider answered
robustFetchPage_provider ==
  /\ pc = "provider"
  /\ \E o \in AxiosOutcomes :
       /\ outcome' = o
       /\ r' = tryFetch(o)
       /\ IF succeeded(tryFetch(o))
          THEN ReturnHtml_part_001(tryFetch(o).data)
          ELSE IssueDirect
  /\ UNCHANGED <<env, aborted, rerun, download, i, attempt, lastErr, sleeps, directOutcome>>

\* 2) the direct fetch answered
robustFetchPage_direct ==
  /\ pc = "direct"
  /\ \E o \in AxiosOutcomes :
       /\ outcome' = o
       /\ r' = tryFetch(o)
       /\ directOutcome' = o
       /\ IF succeeded(tryFetch(o))
          THEN ReturnHtml_part_001(tryFetch(o).data) /\ UNCHANGED <<i, attempt>>
          ELSE i' = 0 /\ attempt' = 0 /\ IssueRelay(0)
  /\ UNCHANGED <<env, aborted, rerun, download, lastErr, sleeps>>

\* the sleep after a failed relay attempt: 400 + attempt * 300
relayBackoff(a) == 400 + a * 300

\* 3) a free proxy answered
robustFetchPage_relay ==
  /\ pc = "relay"
  /\ \E o \in AxiosOutcomes :
       /\ outcome' = o
       /\ r' = tryFetch(o)
       /\ IF succeeded(tryFetch(o))
          THEN ReturnHtml_part_001(tryFetch(o).data) /\ UNCHANGED sleeps
          ELSE /\ sleeps' = Append(sleeps, relayBackoff(attempt))
               /\ pc' = "sleep"
               /\ NoIssue
               /\ UNCHANGED <<fetched, html, extractor, extracted, res>>
  /\ UNCHANGED <<env, aborted, rerun, download, i, attempt, lastErr, directOutcome>>

\* a relay loop that allows one more try per relay
RelayTries_three == 2 + 1

\* tries per relay: for (let attempt = 0; attempt < 2; attempt++)
RelayTries == 2

\* a relay loop that starts over at the first relay when the list is used up
robustFetchPage_sleep_wraps ==
  /\ pc = "sleep"
  /\ IF attempt + 1 < RelayTries
     THEN attempt' = attempt + 1 /\ i' = i /\ IssueRelay(i)
     ELSE IF i + 1 < Len(FREE_PROXIES)
     THEN i' = i + 1 /\ attempt' = 0 /\ IssueRelay(i + 1)
     ELSE IF Len(log) < 4 * Len(FREE_PROXIES)
     THEN i' = 0 /\ attempt' = 0 /\ IssueRelay(0)
     ELSE ReturnError_part_001 /\ UNCHANGED <<i, attempt>>
  /\ UNCHANGED <<env, aborted, rerun, download, r, lastErr, sleeps, outcome, directOutcome>>

\* the backoff elapsed: the next attempt, the next relay, or the end
robustFetchPage_sleep ==
  /\ pc = "sleep"
  /\ IF attempt + 1 < RelayTries
     THEN attempt' = attempt + 1 /\ i' = i /\ IssueRelay(i)
     ELSE IF i + 1 < Len(FREE_PROXIES)
     THEN i' = i + 1 /\ attempt' = 0 /\ IssueRelay(i + 1)
     ELSE ReturnError_part_001 /\ UNCHANGED <<i, attempt>>
  /\ UNCHANGED <<env, aborted, rerun, download, r, lastErr, sleeps, outcome, directOutcome>>

----------------------------------------------------------------------------
(* part_000: fetchWithRetries and its handler                              *)

\* fetchWithRetries(igUrl, 3, 15000)
tries == 3

\* the delay after a failed try: 500 + i * 300
retryBackoff(k) == 500 + k * 300

\* axios.get(url, { timeout, validateStatus }) inside fetchWithRetries
IssueAxios ==
  /\ Issue(Attempt("direct", "origin", 15000))
  /\ pc' = "axios"
  /\ UNCHANGED <<fetched, html, extractor, extracted, res>>

\* part_000, GET /api/getVideo up to the first await of fetchWithRetries
GetVideo_part_000 ==
  /\ pc = "idle" /\ rev = "part_000"
  /\ IF igUrl.text = ""
     THEN /\ res' = Json(400, "Missing url query parameter", JUndef, JUndef)
          /\ pc' = "done" /\ NoIssue
          /\ UNCHANGED <<fetched, html, extractor, extracted>>
     ELSE IF ~igUrl.parses
     THEN /\ res' = Json(400, "Invalid URL", JUndef, JUndef)
          /\ pc' = "done" /\ NoIssue
          /\ UNCHANGED <<fetched, html, extractor, extracted>>
     ELSE IF ~isInstagramHost(igUrl.hostname)
     THEN /\ res' = Json(400, "URL must be an instagram.com link", JUndef, JUndef)
          /\ pc' = "done" /\ NoIssue
          /\ UNCHANGED <<fetched, html, extractor, extracted>>
     ELSE IssueAxios
  /\ UNCHANGED <<env, aborted, rerun, download, i, attempt, r, lastErr, sleeps, outcome, directOutcome>>

\* fetchWithRetries returned resp and the handler of part_000 answers
ReturnResp_part_000(resp) ==
  /\ fetched' = [html |-> resp.data, error |-> "", thrown |-> FALSE]
  /\ IF resp.status \in {403, 404, 429}
     THEN UNCHANGED <<html, extractor, extracted>>
     ELSE /\ html' = resp.data
          /\ extractor' = "part_000"
          /\ extracted' = extractVideoFromHtml(resp.data)
  /\ res' = respond_part_000(resp, extractVideoFromHtml(resp.data))
  /\ pc' = "done"
  /\ NoIssue

\* one try of fetchWithRetries was answered: return resp, or catch and wait
fetchWithRetries_response ==
  /\ pc = "axios"
  /\ \E o \in AxiosOutcomes :
       /\ outcome' = o
       /\ directOutcome' = o
       /\ IF axiosResolves(o)
          THEN /\ r' = [ok |-> TRUE, status |-> o.status, data |-> o.data, err |-> ""]
               /\ ReturnResp_part_000(o)
               /\ UNCHANGED <<lastErr, sleeps>>
          ELSE /\ lastErr' = axiosError(o)
               /\ sleeps' = Append(sleeps, retryBackoff(i))
               /\ pc' = "backoff"
               /\ NoIssue
               /\ UNCHANGED <<r, fetched, html, extractor, extracted, res>>
  /\ UNCHANGED <<env, aborted, rerun, download, i, attempt>>

\* the delay elapsed: the next try, or throw lastErr, which the handler
\* catches and answers with 502
fetchWithRetries_backoff ==
  /\ pc = "backoff"
  /\ IF i + 1 < tries
     THEN i' = i + 1 /\ IssueAxios
     ELSE /\ fetched' = [html |-> <<>>, error |-> lastErr, thrown |-> TRUE]
          /\ res' = Json(502, "Server error while fetching Instagram page", JUndef, JUndef)
          /\ pc' = "done" /\ NoIssue
          /\ UNCHANGED <<i, html, extractor, extracted>>
  /\ UNCHANGED <<env, aborted, rerun, download, attempt, r, lastErr, sleeps, outcome, directOutcome>>

----------------------------------------------------------------------------
(* GET /api/download: the values of a request                              *)

(* A URL as new URL(videoUrl) sees it.  The hostname is a sequence of      *)
(* pieces, "." among them, cut so that every allow-list entry is a run of  *)
(* whole pieces: String.prototype.includes is then "is a run of".          *)
MediaUrl(text, parses, hostname) == [text |-> text, parses |-> parses, hostname |-> hostname]
NoMediaUrl == MediaUrl("", FALSE, <<>>)

\* the media host's answer: status, Content-Length header ("" when absent),
\* the body, and the number of bytes after which the stream breaks (-1:
\* it does not)
Upstream(status, contentLength, body, breaksAt) ==
  [status |-> status, contentLength |-> contentLength, body |-> body, breaksAt |-> breaksAt]
NoUpstream == Upstream(0, "", <<>>, -1)

\* res.setHeader(...) so far
NoHeaders == [contentLength |-> "", sent |-> FALSE]

----------------------------------------------------------------------------
(* The deployed server answering one GET /api/getVideo                     *)

Init ==
  /\ rev \in {"part_000", "part_001"}
  /\ PROXY_PROVIDER \in (IF rev = "part_001" THEN Providers ELSE {""})
  /\ PROXY_KEY \in (IF rev = "part_001" THEN Keys ELSE {""})
  /\ igUrl \in Urls
  /\ pc = "idle"
  /\ i = 0 /\ attempt = 0
  /\ r = NoResult
  /\ lastErr = ""
  /\ fetched = NotFetched
  /\ html = <<>>
  /\ extractor = "none"
  /\ extracted = NotExtracted
  /\ res = NoResponse
  /\ inflight = {}
  /\ log = <<>>
  /\ sleeps = <<>>
  /\ outcome = NoOutcome
  /\ directOutcome = NoOutcome
  /\ aborted = FALSE
  /\ rerun = NotExtracted
  /\ videoUrl = NoMediaUrl /\ upstream = NoUpstream /\ headers = NoHeaders /\ written = <<>>

Next ==
  \/ GetVideo_part_001
  \/ robustFetchPage_provider
  \/ robustFetchPage_direct
  \/ robustFetchPage_relay
  \/ robustFetchPage_sleep
  \/ GetVideo_part_000
  \/ fetchWithRetries_response
  \/ fetchWithRetries_backoff

Spec == Init /\ [][Next]_vars

\* part_001 serving one page request; every attempt ends (axios answers,
\* fails or times out) and every sleep elapses
InitFetch == Init /\ rev = "part_001"

NextFetch ==
  \/ GetVideo_part_001
  \/ robustFetchPage_provider
  \/ robustFetchPage_direct
  \/ robustFetchPage_relay
  \/ robustFetchPage_sleep

SpecFetch == InitFetch /\ [][NextFetch]_vars /\ WF_vars(NextFetch)

----------------------------------------------------------------------------
(* server.js: GET /api/getVideo, one axios.get and no retry                *)

\* axios' default validateStatus: only 2xx resolves, the rest rejects
validateStatus_axios(s) == s >= 200 /\ s < 300

\* server.js, /api/getVideo after the page was fetched
respond_server(data, e) ==
  IF e.isNull \/ ~Truthy(e.video)
  THEN Json(404, "Could not extract video URL. The page structure may have changed or the post may not be a video.",
            JUndef, JUndef)
  ELSE Json(200, "", e.video, thumbnail_part_000(data))

\* server.js, GET /api/getVideo up to the await of axios.get
GetVideo_server ==
  /\ pc = "idle" /\ rev = "server"
  /\ IF igUrl.text = ""
     THEN /\ res' = Json(400, "Missing url query parameter", JUndef, JUndef)
          /\ pc' = "done" /\ NoIssue
     ELSE IF ~igUrl.parses
     THEN /\ res' = Json(400, "Invalid URL", JUndef, JUndef)
          /\ pc' = "done" /\ NoIssue
     ELSE IF ~isInstagramHost(igUrl.hostname)
     THEN /\ res' = Json(400, "URL must be an instagram.com link", JUndef, JUndef)
          /\ pc' = "done" /\ NoIssue
     ELSE /\ Issue(Attempt("direct", "origin", 15000))
          /\ pc' = "get"
          /\ res' = res
  /\ UNCHANGED <<env, aborted, rerun, download, i, attempt, r, lastErr, fetched, html, extractor,
                 extracted, sleeps, outcome, directOutcome>>

\* axios.get settled: extract and answer, or the outer catch answers 500
GetVideo_server_response ==
  /\ pc = "get"
  /\ inflight' = {} /\ log' = log
  /\ \E o \in AxiosOutcomes :
       /\ outcome' = o
       /\ directOutcome' = o
       /\ IF o.kind = "response" /\ validateStatus_axios(o.status)
          THEN /\ fetched' = [html |-> o.data, error |-> "", thrown |-> FALSE]
               /\ html' = o.data
               /\ extractor' = "server"
               /\ extracted' = extractFromHtml(o.data)
               /\ res' = respond_server(o.data, extractFromHtml(o.data))
          ELSE /\ fetched' = [html |-> <<>>, error |-> axiosError(o), thrown |-> TRUE]
               /\ res' = Json(500, "Server error while fetching Instagram page", JUndef, JUndef)
               /\ UNCHANGED <<html, extractor, extracted>>
  /\ pc' = "done"
  /\ UNCHANGED <<env, aborted, rerun, download, i, attempt, r, lastErr, sleeps>>

\* req.query.url: the values of Urls and a host that only contains instagram.com
UrlsGetVideo ==
  Urls \cup {Url("https://instagram.com.evil.example/p/1", TRUE,
                 <<"instagram", "com", "evil", "example">>)}

\* any of the three revisions answering one GET /api/getVideo
InitGetVideo ==
  /\ rev \in {"server", "part_000", "part_001"}
  /\ PROXY_PROVIDER \in (IF rev = "part_001" THEN Providers ELSE {""})
  /\ PROXY_KEY \in (IF rev = "part_001" THEN Keys ELSE {""})
  /\ igUrl \in UrlsGetVideo
  /\ pc = "idle"
  /\ i = 0 /\ attempt = 0
  /\ r = NoResult
  /\ lastErr = ""
  /\ fetched = NotFetched
  /\ html = <<>>
  /\ extractor = "none"
  /\ extracted = NotExtracted
  /\ res = NoResponse
  /\ inflight = {}
  /\ log = <<>>
  /\ sleeps = <<>>
  /\ outcome = NoOutcome
  /\ directOutcome = NoOutcome
  /\ aborted = FALSE
  /\ rerun = NotExtracted
  /\ videoUrl = NoMediaUrl /\ upstream = NoUpstream /\ headers = NoHeaders /\ written = <<>>

NextGetVideo ==
  \/ Next
  \/ GetVideo_server
  \/ GetVideo_server_response

SpecGetVideo == InitGetVideo /\ [][NextGetVideo]_vars

----------------------------------------------------------------------------
(* The extractors as functions: each applied once to any document          *)

InitExtract ==
  /\ html \in Docs
  /\ rev = "none" /\ PROXY_PROVIDER = "" /\ PROXY_KEY = ""
  /\ igUrl = Url("", FALSE, <<>>)
  /\ pc = "pure"
  /\ i = 0 /\ attempt = 0
  /\ r = NoResult
  /\ lastErr = ""
  /\ fetched = NotFetched
  /\ extractor = "none"
  /\ extracted = NotExtracted
  /\ res = NoResponse
  /\ inflight = {}
  /\ log = <<>>
  /\ sleeps = <<>>
  /\ outcome = NoOutcome
  /\ directOutcome = NoOutcome
  /\ aborted = FALSE
  /\ rerun = NotExtracted
  /\ videoUrl = NoMediaUrl /\ upstream = NoUpstream /\ headers = NoHeaders /\ written = <<>>

Call(name, result) ==
  /\ pc = "pure" /\ extractor = "none"
  /\ extractor' = name
  /\ extracted' = result
  /\ UNCHANGED <<env, aborted, rerun, download, pc, i, attempt, r, lastErr, fetched, html, res, inflight, log,
                 sleeps, outcome, directOutcome>>

Call_extractFromHtml == Call("server", extractFromHtml(html))
Call_extractVideoFromHtml == Call("part_000", extractVideoFromHtml(html))
Call_extractFromHtml_part_001 == Call("part_001", extractFromHtml_part_001(html))
Call_extractFromHtml_part_002 == Call("part_002", extractFromHtml_part_002(html))

NextExtract ==
  \/ Call_extractFromHtml
  \/ Call_extractVideoFromHtml
  \/ Call_extractFromHtml_part_001
  \/ Call_extractFromHtml_part_002

SpecExtract == InitExtract /\ [][NextExtract]_vars

----------------------------------------------------------------------------
(* extractFromHtml of part_001 run twice on one text, while the server     *)
(* serves other requests                                                   *)

InitRepeat ==
  /\ html \in Docs
  /\ rev = "part_001"
  /\ PROXY_PROVIDER \in {"", "ScraperAPI"} /\ PROXY_KEY = "secret"
  /\ igUrl = Url("", FALSE, <<>>)
  /\ pc = "first"
  /\ i = 0 /\ attempt = 0
  /\ r = NoResult
  /\ lastErr = ""
  /\ fetched = NotFetched
  /\ extractor = "none"
  /\ extracted = NotExtracted
  /\ res = NoResponse
  /\ inflight = {}
  /\ log = <<>>
  /\ sleeps = <<>>
  /\ outcome = NoOutcome
  /\ directOutcome = NoOutcome
  /\ aborted = FALSE
  /\ rerun = NotExtracted
  /\ videoUrl = NoMediaUrl /\ upstream = NoUpstream /\ headers = NoHeaders /\ written = <<>>

\* the first run
Extract_first ==
  /\ pc = "first"
  /\ extractor' = "part_001"
  /\ extracted' = extractFromHtml_part_001(html)
  /\ pc' = "second"
  /\ UNCHANGED <<env, aborted, download, rerun, i, attempt, r, lastErr, fetched, html, res, inflight,
                 log, sleeps, outcome, directOutcome>>

\* between the runs another request's handler sends its direct fetch, or
\* gets its answer
OtherRequest ==
  /\ pc = "second"
  /\ \/ inflight = {} /\ Len(log) < MaxOther /\ Issue(Attempt("direct", "origin", 15000))
     \/ inflight # {} /\ inflight' = {} /\ log' = log
  /\ UNCHANGED <<env, aborted, download, rerun, pc, i, attempt, r, lastErr, fetched, html, extractor,
                 extracted, res, sleeps, outcome, directOutcome>>

\* a second run whose result depends on what else the server is doing
Extract_again_stateful ==
  /\ pc = "second"
  /\ rerun' = IF inflight = {} THEN extractFromHtml_part_001(html) ELSE ReturnNull
  /\ pc' = "both"
  /\ UNCHANGED <<env, aborted, download, i, attempt, r, lastErr, fetched, html, extractor, extracted,
                 res, inflight, log, sleeps, outcome, directOutcome>>

\* the second run
Extract_again ==
  /\ pc = "second"
  /\ rerun' = extractFromHtml_part_001(html)
  /\ pc' = "both"
  /\ UNCHANGED <<env, aborted, download, i, attempt, r, lastErr, fetched, html, extractor, extracted,
                 res, inflight, log, sleeps, outcome, directOutcome>>

NextRepeat ==
  \/ Extract_first
  \/ OtherRequest
  \/ Extract_again

SpecRepeat == InitRepeat /\ [][NextRepeat]_vars

----------------------------------------------------------------------------
(* GET /api/download of server.js and of part_001                          *)

\* server.js: MEDIA_HOST_WHITELIST, each entry cut into pieces
MEDIA_HOST_WHITELIST ==
  << <<"cdn", "instagram", ".", "com">>,
     <<"instagram", ".", "com">>,
     <<"fb", "cdn", ".", "net">>,
     <<"fna", ".", "fb", "cdn", ".", "net">>,
     <<"akamaihd", ".", "net">>,
     <<"cdn", "instagram">> >>

\* String.prototype.includes
includes(h, allowed) ==
  \E k \in 0..(Len(h) - Len(allowed)) : SubSeq(h, k + 1, k + Len(allowed)) = allowed

\* server.js: isAllowedMediaHost
isAllowedMediaHost(hostname) ==
  /\ hostname # <<>>
  /\ LET h == [j \in 1..Len(hostname) |-> toLowerCase(hostname[j])]
     IN \E j \in 1..Len(MEDIA_HOST_WHITELIST) : includes(h, MEDIA_HOST_WHITELIST[j])

\* the values of req.query.video; new URL() gives the hostname in lower case
MediaUrls ==
  { NoMediaUrl,
    MediaUrl("not a url", FALSE, <<>>),
    MediaUrl("https://scontent.cdninstagram.com/v.mp4", TRUE,
             <<"scontent", ".", "cdn", "instagram", ".", "com">>),
    MediaUrl("https://instagram.com/v.mp4", TRUE, <<"instagram", ".", "com">>),
    MediaUrl("https://instagram.com.attacker.example/v.mp4", TRUE,
             <<"instagram", ".", "com", ".", "attacker", ".", "example">>),
    MediaUrl("https://xcdninstagramx.example/v.mp4", TRUE,
             <<"x", "cdn", "instagram", "x", ".", "example">>),
    MediaUrl("https://attacker.example/v.mp4", TRUE, <<"attacker", ".", "example">>),
    MediaUrl("http://169.254.169.254/latest", TRUE, <<"169.254.169.254">>) }

\* the bodies a media host sends, as byte sequences of at most MaxBody
Bytes == {"a", "b"}
StreamBodies == UNION {[1..n -> Bytes] : n \in 0..MaxBody}

\* the answers of the media host: a 200 with or without Content-Length,
\* whole or broken after some bytes; other statuses with a body
Upstreams ==
  UNION {{Upstream(200, cl, b, k) : cl \in {<<>>, <<Len(b)>>}, k \in -1..(Len(b) - 1)}
            : b \in StreamBodies}
    \cup {Upstream(204, <<>>, <<>>, -1)}
    \cup {Upstream(st, <<1>>, <<"a">>, -1) : st \in {206, 403, 404, 500}}

\* axios' default validateStatus of part_001's download; validateStatus:
\* null of server.js accepts every status
validateStatus_download(st) == st >= 200 /\ st < 300

\* res.status(st).json({ error })
FailJson(st, error) ==
  /\ res' = Json(st, error, JUndef, JUndef)
  /\ pc' = "done"
  /\ UNCHANGED <<upstream, headers, written>>

\* axios({ url: videoUrl, responseType: 'stream', ... }) is called
IssueDownload(timeout) ==
  /\ log' = Append(log, Attempt("download", videoUrl.hostname, timeout))
  /\ inflight' = {Attempt("download", videoUrl.hostname, timeout)}
  /\ pc' = "upstream"
  /\ UNCHANGED <<res, upstream, headers, written>>

\* server.js, GET /api/download up to the await
Download_server ==
  /\ pc = "idle" /\ rev = "server"
  /\ IF videoUrl.text = ""
     THEN FailJson(400, "Missing video query parameter") /\ UNCHANGED <<log, inflight>>
     ELSE IF ~videoUrl.parses
     THEN FailJson(400, "Invalid video URL") /\ UNCHANGED <<log, inflight>>
     ELSE IF ~isAllowedMediaHost(videoUrl.hostname)
     THEN FailJson(400, "Video host is not allowed") /\ UNCHANGED <<log, inflight>>
     ELSE IssueDownload(20000)
  /\ UNCHANGED <<env, aborted, rerun, videoUrl, i, attempt, r, lastErr, fetched, html, extractor,
                 extracted, sleeps, outcome, directOutcome>>

\* part_001, GET /api/download up to the await; axios rejects a text that
\* is no URL without sending anything, and the catch answers 500
Download_part_001 ==
  /\ pc = "idle" /\ rev = "part_001"
  /\ IF videoUrl.text = ""
     THEN FailJson(400, "Missing video query parameter") /\ UNCHANGED <<log, inflight>>
     ELSE IF ~videoUrl.parses
     THEN FailJson(500, "Download failed") /\ UNCHANGED <<log, inflight>>
     ELSE IssueDownload(30000)
  /\ UNCHANGED <<env, aborted, rerun, videoUrl, i, attempt, r, lastErr, fetched, html, extractor,
                 extracted, sleeps, outcome, directOutcome>>

\* the headers are set and response.data.pipe(res) is called
StartPipe(u, contentLength) ==
  /\ upstream' = u
  /\ headers' = [contentLength |-> contentLength, sent |-> FALSE]
  /\ res' = Json(200, "", JUndef, JUndef)
  /\ pc' = "piping"
  /\ UNCHANGED written

\* server.js: the axios call settles
Download_server_response ==
  /\ pc = "upstream" /\ rev = "server"
  /\ inflight' = {} /\ log' = log
  /\ \/ \E u \in Upstreams :
          /\ outcome' = Response(u.status, <<>>)
          /\ IF u.status # 200
             THEN FailJson(502, "Failed to fetch remote video")
             ELSE StartPipe(u, u.contentLength)
     \/ /\ outcome' = Failure("ECONNRESET")
        /\ FailJson(500, "Failed to download/stream video")
  /\ UNCHANGED <<env, aborted, rerun, videoUrl, i, attempt, r, lastErr, fetched, html, extractor,
                 extracted, sleeps, directOutcome>>

\* part_001: the axios call settles
Download_part_001_response ==
  /\ pc = "upstream" /\ rev = "part_001"
  /\ inflight' = {} /\ log' = log
  /\ \/ \E u \in Upstreams :
          /\ outcome' = Response(u.status, <<>>)
          /\ IF ~validateStatus_download(u.status)
             THEN FailJson(500, "Download failed")
             ELSE StartPipe(u, <<>>)
     \/ /\ outcome' = Failure("ECONNRESET")
        /\ FailJson(500, "Download failed")
  /\ UNCHANGED <<env, aborted, rerun, videoUrl, i, attempt, r, lastErr, fetched, html, extractor,
                 extracted, sleeps, directOutcome>>

\* a pipe that hands the chunks on last first
pipe_data_reversed ==
  /\ pc = "piping" /\ ~aborted
  /\ Len(written) < Len(upstream.body) /\ Len(written) # upstream.breaksAt
  /\ written' = Append(written, upstream.body[Len(upstream.body) - Len(written)])
  /\ headers' = [headers EXCEPT !.sent = TRUE]
  /\ UNCHANGED <<env, aborted, rerun, videoUrl, upstream, pc, i, attempt, r, lastErr, fetched, html,
                 extractor, extracted, res, inflight, log, sleeps, outcome, directOutcome>>

\* pipe: the next chunk of the upstream body is written to res; pipe stops
\* feeding a res that was closed
pipe_data ==
  /\ pc = "piping" /\ ~aborted
  /\ Len(written) < Len(upstream.body) /\ Len(written) # upstream.breaksAt
  /\ written' = Append(written, upstream.body[Len(written) + 1])
  /\ headers' = [headers EXCEPT !.sent = TRUE]
  /\ UNCHANGED <<env, aborted, rerun, videoUrl, upstream, pc, i, attempt, r, lastErr, fetched, html,
                 extractor, extracted, res, inflight, log, sleeps, outcome, directOutcome>>

\* pipe: the upstream stream ended and res is ended
pipe_end ==
  /\ pc = "piping" /\ ~aborted
  /\ Len(written) = Len(upstream.body) /\ upstream.breaksAt = -1
  /\ headers' = [headers EXCEPT !.sent = TRUE]
  /\ pc' = "done"
  /\ UNCHANGED <<env, aborted, rerun, videoUrl, upstream, written, i, attempt, r, lastErr, fetched,
                 html, extractor, extracted, res, inflight, log, sleeps, outcome,
                 directOutcome>>

\* an 'error' listener that answers 500 whether or not the headers went out
stream_error_rewrites ==
  /\ pc = "piping"
  /\ Len(written) = upstream.breaksAt
  /\ res' = Json(500, "Stream error", JUndef, JUndef)
  /\ pc' = IF rev = "server" THEN "done" ELSE "broken"
  /\ UNCHANGED <<env, aborted, rerun, videoUrl, upstream, headers, written, i, attempt, r, lastErr,
                 fetched, html, extractor, extracted, inflight, log, sleeps, outcome,
                 directOutcome>>

(* the upstream stream emits 'error'.  server.js answers 500 when nothing  *)
(* was sent yet and ends the response otherwise; part_001 has no listener, *)
(* and the response is left as it is.                                      *)
stream_error ==
  /\ pc = "piping"
  /\ Len(written) = upstream.breaksAt
  /\ IF rev = "server"
     THEN /\ res' = IF headers.sent THEN res ELSE Json(500, "Stream error", JUndef, JUndef)
          /\ pc' = "done"
     ELSE /\ res' = res
          /\ pc' = "broken"
  /\ UNCHANGED <<env, aborted, rerun, videoUrl, upstream, headers, written, i, attempt, r, lastErr,
                 fetched, html, extractor, extracted, inflight, log, sleeps, outcome,
                 directOutcome>>

InitDownload ==
  /\ rev \in {"server", "part_001"}
  /\ PROXY_PROVIDER = "" /\ PROXY_KEY = ""
  /\ igUrl = Url("", FALSE, <<>>)
  /\ videoUrl \in MediaUrls
  /\ pc = "idle"
  /\ i = 0 /\ attempt = 0
  /\ r = NoResult
  /\ lastErr = ""
  /\ fetched = NotFetched
  /\ html = <<>>
  /\ extractor = "none"
  /\ extracted = NotExtracted
  /\ res = NoResponse
  /\ inflight = {}
  /\ log = <<>>
  /\ sleeps = <<>>
  /\ outcome = NoOutcome
  /\ directOutcome = NoOutcome
  /\ aborted = FALSE
  /\ rerun = NotExtracted
  /\ upstream = NoUpstream /\ headers = NoHeaders /\ written = <<>>

NextDownload ==
  \/ Download_server
  \/ Download_part_001
  \/ Download_server_response
  \/ Download_part_001_response
  \/ pipe_data
  \/ pipe_end
  \/ stream_error

SpecDownload == InitDownload /\ [][NextDownload]_vars

----------------------------------------------------------------------------
(* A client that goes away while its request is being served               *)

(* The client closes the connection.  Neither handler listens for 'close'  *)
(* on req or res and no signal is handed to axios: the step changes        *)
(* nothing the handlers read.                                              *)
ClientDisconnect ==
  /\ ~aborted
  /\ pc \notin {"idle", "done", "broken"}
  /\ aborted' = TRUE
  /\ UNCHANGED <<env, rerun, download, pc, i, attempt, r, lastErr, fetched, html, extractor,
                 extracted, res, inflight, log, sleeps, outcome, directOutcome>>

\* a page request to part_001, or a download request to server.js
InitCancel ==
  /\ \/ /\ rev = "part_001"
        /\ PROXY_PROVIDER \in Providers /\ PROXY_KEY \in Keys
        /\ igUrl = Url("https://www.instagram.com/p/1", TRUE, <<"www", "instagram", "com">>)
        /\ videoUrl = NoMediaUrl
     \/ /\ rev = "server"
        /\ PROXY_PROVIDER = "" /\ PROXY_KEY = ""
        /\ igUrl = Url("", FALSE, <<>>)
        /\ videoUrl \in MediaUrls
  /\ pc = "idle"
  /\ i = 0 /\ attempt = 0
  /\ r = NoResult
  /\ lastErr = ""
  /\ fetched = NotFetched
  /\ html = <<>>
  /\ extractor = "none"
  /\ extracted = NotExtracted
  /\ res = NoResponse
  /\ inflight = {}
  /\ log = <<>>
  /\ sleeps = <<>>
  /\ outcome = NoOutcome
  /\ directOutcome = NoOutcome
  /\ aborted = FALSE
  /\ rerun = NotExtracted
  /\ upstream = NoUpstream /\ headers = NoHeaders /\ written = <<>>

NextCancel ==
  \/ GetVideo_part_001
  \/ robustFetchPage_provider
  \/ robustFetchPage_direct
  \/ robustFetchPage_relay
  \/ robustFetchPage_sleep
  \/ Download_server
  \/ Download_server_response
  \/ pipe_data
  \/ pipe_end
  \/ stream_error
  \/ ClientDisconnect

SpecCancel == InitCancel /\ [][NextCancel]_vars

----------------------------------------------------------------------------
(* Properties of the fetcher                                               *)

\* an attempt that ended with a response of status < 400 and a body
IsSuccess(o) == o.kind = "response" /\ o.status < 400 /\ o.data # <<>>
Is4xx(o) == o.kind = "response" /\ o.status >= 400 /\ o.status <= 499
\* status >= 500, a network error or a timeout
IsRetryable(o) == (o.kind = "response" /\ o.status >= 500) \/ o.kind = "error"

\* the attempts made so far with one strategy, or through one relay
Count(strategy) == Cardinality({j \in 1..Len(log) : log[j].strategy = strategy})
CountRelay(k) == Cardinality({j \in 1..Len(log) : log[j].endpoint = FREE_PROXIES[k]})

\* the relays the deployed revision has: part_000 has none
ConfiguredRelays == IF rev = "part_001" THEN FREE_PROXIES ELSE <<>>

\* the place of an attempt in the chain: provider, direct, relays in list order
ChainRank(a) ==
  IF a.strategy = "provider" THEN 0
  ELSE IF a.strategy = "direct" THEN 1
  ELSE 1 + Min({k \in 1..Len(FREE_PROXIES) : FREE_PROXIES[k] = a.endpoint})

InChainOrder == \A j, k \in 1..Len(log) : j < k => ChainRank(log[j]) <= ChainRank(log[k])

(* C1: the first attempt in chain order (provider, direct, relays in list  *)
(* order) that gets a response with status < 400 and a non-empty body is   *)
(* what the fetcher returns as HTML, and no attempt is issued after it; a  *)
(* provider success leaves the provider attempt the only one made.         *)
C1_FirstSuccessIsReturned ==
  /\ [](/\ InChainOrder
        /\ IsSuccess(outcome) =>
             /\ pc = "done"
             /\ fetched = [html |-> outcome.data, error |-> "", thrown |-> FALSE]
             /\ inflight = {}
             /\ (Last(log).strategy = "provider" => Len(log) = 1))
  /\ [][IsSuccess(outcome) => log' = log]_vars

\* a relay answers with a page after the provider, the direct fetch and the
\* first relay failed
C1_Witness ==
  /\ pc = "done" /\ IsSuccess(outcome)
  /\ Len(log) = 5
  /\ log[1].strategy = "provider"
  /\ Last(log).endpoint = FREE_PROXIES[2]
  /\ fetched.html = PageImage

C3_DirectRetriedWithBackoff ==
  /\ Count("direct") <= tries
  /\ (IsRetryable(directOutcome) /\ pc \notin {"direct", "axios"}) =>
       \/ /\ pc = "backoff"
          /\ sleeps # <<>>
          /\ Last(sleeps) = 500 + (Count("direct") - 1) * 300
       \/ Count("direct") = tries

(* C4: relays are tried in list order, each at most 2 times, relay k+1     *)
(* only after relay k had both of its attempts (which failed, by C1), and  *)
(* no relay is tried again once a later one has been tried.                *)
C4_RelaysInOrderTwiceEach ==
  /\ \A j, k \in 1..Len(log) :
       (j < k /\ log[j].strategy = "relay") =>
          /\ log[k].strategy = "relay"
          /\ ChainRank(log[j]) <= ChainRank(log[k])
  /\ \A k \in 1..Len(FREE_PROXIES) : CountRelay(k) <= 2
  /\ \A k \in 2..Len(FREE_PROXIES) : CountRelay(k) > 0 => CountRelay(k - 1) = 2
  /\ (IsSuccess(outcome) /\ log # <<>>) =>
       \A k \in 1..Len(FREE_PROXIES) : ChainRank(Last(log)) < 1 + k => CountRelay(k) = 0

\* every relay was tried twice and the last try failed too
C4_Witness ==
  /\ pc = "done" /\ fetched.error # ""
  /\ \A k \in 1..Len(FREE_PROXIES) : CountRelay(k) = 2
  /\ Len(log) = 7

(* C5: a 4xx response is terminal for the strategy and endpoint that got   *)
(* it and the chain continues: once the last answer is a 4xx, the next     *)
(* attempt of the request, if any, goes to another endpoint; the request   *)
(* ends on a 4xx only when no strategy is left; and the body of a 4xx      *)
(* answer is never the HTML that is handed to extraction.                  *)
C5_4xxTerminalForStrategy ==
  /\ [](Is4xx(outcome) =>
          /\ html = <<>>
          /\ (pc = "done" /\ ConfiguredRelays # <<>>) =>
                Last(log).endpoint = Last(ConfiguredRelays))
  /\ [][(Is4xx(outcome) /\ log' # log) => Last(log').endpoint # Last(log).endpoint]_vars

\* the paid provider is attempted when provider and key are set and the
\* provider is one buildProviderProxyUrl knows
ProviderConfigured ==
  /\ PROXY_PROVIDER # "" /\ PROXY_KEY # ""
  /\ buildProviderProxyUrl(PROXY_PROVIDER, PROXY_KEY, igUrl) # "null"

(* C6: a failure of the provider strategy is never fatal: the provider is  *)
(* attempted at most once, only as the first attempt and only when it is   *)
(* configured; once it was answered, either it succeeded and is the only   *)
(* attempt, or the direct fetch is the second attempt.                     *)
C6_ProviderFailureNotFatal ==
  /\ Count("provider") <= 1
  /\ \A j \in 1..Len(log) : log[j].strategy = "provider" => (j = 1 /\ ProviderConfigured)
  /\ (Count("provider") = 1 /\ pc # "provider") =>
       IF Len(log) = 1
       THEN pc = "done" /\ IsSuccess(outcome) /\ res.status \in {200, 404}
       ELSE log[2].strategy = "direct"

\* the provider failed, the direct fetch failed and a relay gave the page
C6_Witness ==
  /\ pc = "done" /\ Count("provider") = 1
  /\ Len(log) = 3 /\ IsSuccess(outcome) /\ res.status = 200

\* every strategy the deployment has was attempted
AllStrategiesAttempted ==
  /\ ProviderConfigured => Count("provider") = 1
  /\ Count("direct") >= 1
  /\ \A k \in 1..Len(ConfiguredRelays) : CountRelay(k) >= 1

\* the error or the status of an attempt, as a failure could carry it
LastCaptured(o) == IF o.kind = "response" THEN {ToString(o.status), axiosError(o)} ELSE {o.code}

(* C7: when the fetcher gives up it returns a failure that carries the     *)
(* last captured error or status of the last failed attempt, it does so    *)
(* only after every configured strategy was attempted, and it never throws.*)
C7_ExhaustionCarriesLastError ==
  (pc = "done" /\ log # <<>> /\ fetched.html = <<>> /\ (fetched.error # "" \/ fetched.thrown)) =>
     /\ ~fetched.thrown
     /\ fetched.error \in LastCaptured(outcome)
     /\ AllStrategiesAttempted

\* what the caller is told when nothing more specific is known
GenericFailures ==
  {"Proxy fetch failed", "Server error while fetching Instagram page",
   "Instagram post not found (404)."}

(* C8: when the direct fetch was answered 403 or 429 and no later strategy *)
(* succeeded, the caller gets an error that is neither the generic         *)
(* exhaustion error nor the not-found error.                               *)
C8_BlockedReportedDistinctly ==
  (pc = "done" /\ directOutcome.status \in {403, 429} /\ ~IsSuccess(outcome)) =>
     /\ res.status = 502
     /\ res.error \notin GenericFailures

----------------------------------------------------------------------------
(* Properties of the extractors                                            *)

\* the values of the open-graph video tags of a document
OgVideoValues(doc) ==
  {doc[j].content : j \in {k \in 1..Len(doc) :
      IsMeta(doc[k], "og:video") \/ IsMeta(doc[k], "og:video:secure_url")}}

\* scheme "https:", "//", a host
IsAbsoluteUrl(s) == Len(s) >= 4 /\ s[1] = "https:" /\ s[2] = "/" /\ s[3] = "/"

(* C9: when a document has an og:video or og:video:secure_url tag whose    *)
(* value is an absolute URL, the extractors of server.js and part_001      *)
(* return exactly such a value as video, by their first strategy,          *)
(* whatever else the document holds.                                       *)
C9_OgVideoAbsoluteReturned ==
  (extractor \in {"server", "part_001"} /\ \E v \in OgVideoValues(html) : IsAbsoluteUrl(v)) =>
     /\ extracted.strategy = 1
     /\ \E v \in OgVideoValues(html) : IsAbsoluteUrl(v) /\ extracted.video = JStr(v)

\* what each strategy of the extractor that ran yields on the document, in
\* the order og:video, ld+json, _sharedData, raw "video_url"
StrategyChain ==
  IF extractor = "server" THEN <<ogVideo(html), ld(html), found(html), simpleMatch(html)>>
  ELSE IF extractor = "part_000"
  THEN <<ogVideo(html), ld(html), found_part_000(html), simpleMatch(html)>>
  ELSE <<ogMatch(html), ldMatch(html), sharedMatch(html), simpleVideoMatch(html)>>

\* the strategies that yield a match; an empty text is rejected by part_001
\* before any strategy runs
Matching ==
  IF extractor = "part_001" /\ html = <<>> THEN {}
  ELSE {k \in 1..Len(StrategyChain) : StrategyChain[k].hit}

(* C10: the extractors of server.js, part_000 and part_001 apply the       *)
(* strategies in the order og:video, ld+json contentUrl, _sharedData walk, *)
(* raw "video_url" scan: the video returned is that of the lowest-numbered *)
(* strategy that matches, strategy k is the source only if 1..k-1 did not  *)
(* match, and without any match no video is returned.                      *)
C10_StrategyOrder ==
  extractor \in {"server", "part_000", "part_001"} =>
     IF Matching = {}
     THEN extracted.strategy = 0 /\ ~Truthy(extracted.video)
     ELSE /\ extracted.strategy = Min(Matching)
          /\ extracted.video = StrategyChain[Min(Matching)].v
          /\ \A j \in 1..(extracted.strategy - 1) : ~StrategyChain[j].hit

\* the _sharedData walk gives a picture's address although a raw
\* "video_url" is in the text too
C10_Witness ==
  /\ extractor = "part_001" /\ extracted.strategy = 3
  /\ simpleVideoMatch(html).hit
  /\ extracted.video # simpleVideoMatch(html).v

\* the strategies of the extractor that ran, part_002's three included
Strategies ==
  IF extractor = "part_002"
  THEN <<ogVideo_part_002(html), ld_part_002(html), script_part_002(html)>>
  ELSE StrategyChain

\* the try block of strategy k raised an exception on the document
BlockThrew(k) ==
  LET l == FirstIdx(html, IsLdScript)
      scripts == {j \in 1..Len(html) : html[j].tag = "script"}
  IN IF k = 2
     THEN IF extractor = "part_002" THEN ld_part_002_try(html).t = "throw"
          ELSE l # 0 /\ contentUrlOf_try(html[l].text).t = "throw"
     ELSE IF k = 3
     THEN IF extractor = "server" THEN \E j \in scripts : foundIn_server_try(html[j]).t = "throw"
          ELSE IF extractor = "part_000"
          THEN \E j \in scripts : foundIn_part_000_try(html[j]).t = "throw"
          ELSE extractor = "part_001" /\ sharedMatch_try(html).t = "throw"
     ELSE FALSE

\* the result is that of the first strategy from k on that matches
ResultFrom(k) ==
  LET rest == {j \in k..Len(Strategies) : Strategies[j].hit}
  IN IF rest = {} THEN ~Truthy(extracted.video)
     ELSE extracted.strategy = Min(rest) /\ extracted.video = Strategies[Min(rest)].v

(* C11: the extractors of server.js, part_001 and part_002 never end with  *)
(* an exception: no strategy lets one escape, the result is never one, and *)
(* when the try block of a strategy raises (a JSON parse failure, a        *)
(* TypeError on a mismatching structure) with no earlier match, the result *)
(* is that of the strategies that remain.                                  *)
C11_ExtractNeverThrows ==
  extractor \in {"server", "part_001", "part_002"} =>
     /\ extracted.video.t # "throw" /\ extracted.thumbnail.t # "throw"
     /\ \A k \in 1..Len(Strategies) : Strategies[k].v.t # "throw"
     /\ \A k \in 1..Len(Strategies) :
          (BlockThrew(k) /\ \A j \in 1..(k - 1) : ~Strategies[j].hit) => ResultFrom(k)

\* part_002 reads contentUrl of a parsed null, or cannot parse, and the raw
\* scan still gives the video
C11_Witness ==
  /\ extractor = "part_002" /\ BlockThrew(2)
  /\ extracted.strategy = 3 /\ Truthy(extracted.video)

\* a text the normalization leaves as it is: no \u0026 and no backslash
Normalized(s) == decodeEscapes(s) = s

\* the strings an extractor result holds
ReturnedStrings ==
  {f.s : f \in {g \in {extracted.video, extracted.thumbnail} : g.t = "string"}}

(* C12: every string that the extractors of server.js and part_001 return, *)
(* video or thumbnail, is normalized: \u0026 has become & and no backslash  *)
(* is left; and a raw "video_url" written with \/ and \u0026, when it is   *)
(* the strategy that matches, comes back as the plain URL.                 *)
C12_ReturnedStringsNormalized ==
  extractor \in {"server", "part_001"} =>
     /\ \A s \in ReturnedStrings : Normalized(s)
     /\ (extracted.strategy = 4 /\ rawMatch(html, "video_url").v = JStr(AbsEscaped("raw.mp4"))) =>
          extracted.video = JStr(AbsQuery("raw.mp4"))

\* the thumbnail a document offers: the og:image value, else the
\* "display_url" field, else none
OfferedThumbnail ==
  LET a == metaAttr(html, "og:image")
      d == rawMatch(html, "display_url")
  IN IF Truthy(a) THEN a
     ELSE IF d.hit THEN JStr(decodeEscapes(d.v.s))
     ELSE JNull

(* C13: when no strategy yields a video, the extractors of server.js and   *)
(* part_001 return a result without video whose thumbnail is the og:image  *)
(* value if the document has one, else its "display_url", else none.       *)
C13_ThumbnailWhenNoVideo ==
  (extractor \in {"server", "part_001"} /\ Matching = {}) =>
     /\ ~Truthy(extracted.video)
     /\ IF Truthy(OfferedThumbnail)
        THEN extracted.thumbnail = OfferedThumbnail
        ELSE ~Truthy(extracted.thumbnail)

\* a scheme, "//" and a host: an absolute URL, whatever the scheme's case
IsSchemePrefixed(s) == Len(s) >= 4 /\ s[1] \in {"https:", "HTTPS:"} /\ s[2] = "/" /\ s[3] = "/"

(* C14: in every result of the extractors of server.js, part_001 and       *)
(* part_002 the video is absent or a string that is an absolute,           *)
(* scheme-prefixed URL.                                                    *)
C14_VideoAbsentOrAbsolute ==
  extractor \in {"server", "part_001", "part_002"} =>
     \/ extracted.isNull
     \/ Nullish(extracted.video)
     \/ extracted.video.t = "string" /\ IsSchemePrefixed(extracted.video.s)

----------------------------------------------------------------------------
(* Properties of the download relay                                        *)

(* C16: a /api/download request whose video URL has a host that the        *)
(* allow-list check does not accept is answered with a client error, and   *)
(* no outbound request is ever issued for it.                              *)
C16_ForbiddenHostNotFetched ==
  (videoUrl.parses /\ ~isAllowedMediaHost(videoUrl.hostname)) =>
     /\ log = <<>> /\ inflight = {}
     /\ pc # "idle" => (pc = "done" /\ res.status >= 400 /\ res.status <= 499)

\* the host is an allow-listed domain or a subdomain of one
IsKnownMediaHost(h) ==
  \E j \in 1..Len(MEDIA_HOST_WHITELIST) :
     LET a == MEDIA_HOST_WHITELIST[j]
     IN \/ h = a
        \/ /\ Len(h) > Len(a) + 1
           /\ SubSeq(h, Len(h) - Len(a), Len(h)) = <<".">> \o a

(* C17: server.js sends an outbound request only to a known media host:    *)
(* every host that passes the allow-list check is an allow-listed domain   *)
(* or a subdomain of one.                                                  *)
C17_OnlyKnownMediaHosts ==
  rev = "server" => \A j \in 1..Len(log) : IsKnownMediaHost(log[j].endpoint)

\* s is the beginning of t
IsPrefix(s, t) == Len(s) <= Len(t) /\ SubSeq(t, 1, Len(s)) = s

C19_Non2xxFailsAnd2xxStreams ==
  (outcome.kind = "response" /\ pc # "upstream") =>
     IF outcome.status < 200 \/ outcome.status > 299
     THEN pc = "done" /\ written = <<>> /\ res.status >= 400
     ELSE /\ pc \in {"piping", "done", "broken"}
          /\ upstream.status = outcome.status
          /\ upstream.breaksAt = -1 => res.status = 200

----------------------------------------------------------------------------
(* Properties of GET /api/getVideo                                         *)

\* the page fetch ended for good without a page: no answer, a timeout, a
\* status >= 500, or the origin blocking with 403 or 429
FetchFailedOrBlocked ==
  /\ log # <<>>
  /\ \/ outcome.kind = "error"
     \/ outcome.kind = "response" /\ (outcome.status >= 500 \/ outcome.status \in {403, 429})

(* C20: a GET /api/getVideo request gets one response, never replaced,     *)
(* with status 200, 400, 404, 502 or 500: when a page was fetched, 200 if  *)
(* a video was extracted from it and 404 if not; 200 only with a video and *)
(* 404 only after an upstream answer; 502, and never 500, when the page    *)
(* fetch failed or was blocked.                                            *)
C20_OneResponsePerRequest ==
  /\ [](/\ (pc = "done") <=> (res # NoResponse)
        /\ pc = "done" =>
             /\ res.status \in {200, 400, 404, 500, 502}
             /\ log = <<>> => res.status = 400
             /\ IsSuccess(outcome) =>
                  res.status = (IF Truthy(extracted.video) THEN 200 ELSE 404)
             /\ res.status = 200 => (Truthy(res.video) /\ html # <<>>)
             /\ res.status = 404 => outcome.kind = "response"
             /\ FetchFailedOrBlocked => res.status = 502)
  /\ [][res # NoResponse => res' = res]_vars

\* the host is instagram.com or a subdomain of it
IsInstagramDomain(hostname) ==
  /\ Len(hostname) >= 2
  /\ SubSeq(hostname, Len(hostname) - 1, Len(hostname)) = <<"instagram", "com">>

\* the url parameter is missing, is not an absolute URL, or names another host
RejectableUrl ==
  \/ igUrl.text = ""
  \/ ~igUrl.parses
  \/ ~IsInstagramDomain(igUrl.hostname)

(* C21: a GET /api/getVideo request whose url parameter is missing, does   *)
(* not parse or names a host outside instagram.com is answered with 400,   *)
(* and no fetch attempt, provider, direct or relay, is ever issued for it. *)
C21_BadUrlRejectedWithoutFetch ==
  RejectableUrl =>
    /\ log = <<>>
    /\ inflight = {}
    /\ sleeps = <<>>
    /\ pc = "done" => res.status = 400

\* the image URLs the open-graph image tags of the fetched HTML carry
OgImages ==
  {JStr(html[k].content) : k \in {j \in 1..Len(html) : IsMeta(html[j], "og:image") /\ html[j].content # <<>>}}

\* /api/getVideo answered 404 after the extractor found no video in the HTML
NotFoundAfterExtraction ==
  /\ pc = "done"
  /\ res.status = 404
  /\ extractor # "none"
  /\ ~Truthy(extracted.video)

(* C22: when /api/getVideo answers 404 because no video was extractable    *)
(* and the fetched HTML carries an open-graph image tag, the 404 payload   *)
(* has that image URL as thumbnail.                                        *)
C22_NotFoundCarriesThumbnail ==
  (NotFoundAfterExtraction /\ OgImages # {}) => res.thumbnail \in OgImages

----------------------------------------------------------------------------
(* Properties of a relay whose upstream breaks                             *)

\* this step is the upstream stream of server.js emitting 'error'
StreamFails ==
  /\ rev = "server"
  /\ pc = "piping" /\ pc' # "piping"
  /\ Len(written) = upstream.breaksAt

(* C23: once server.js has flushed the response headers or a body byte,    *)
(* no step changes the response status or the headers, and the bytes       *)
(* written stay as they are; an upstream failure after that point ends the *)
(* response and writes nothing more, and a stream error sets status 500    *)
(* only when no header was sent yet.                                       *)
C23_NoRewriteAfterFlush ==
  /\ [][(rev = "server" /\ headers.sent) =>
           /\ res'.status = res.status
           /\ headers' = headers
           /\ IsPrefix(written, written')]_vars
  /\ [][StreamFails =>
           /\ pc' = "done"
           /\ written' = written
           /\ headers.sent => res' = res
           /\ res'.status = 500 => (~headers.sent /\ written = <<>>)]_vars

\* the upstream broke after the first byte of a 200 had been relayed
C23_Witness ==
  /\ rev = "server" /\ pc = "done"
  /\ upstream.breaksAt = 1 /\ written = <<"a">>
  /\ headers.sent /\ res.status = 200

----------------------------------------------------------------------------
(* Properties of the order of the attempts in time                         *)

\* the attempts made so far that are followed by a backoff delay: every try
\* of fetchWithRetries, every relay try of robustFetchPage
DelayedAttempts == IF rev = "part_000" THEN Len(log) ELSE Count("relay")

(* C24: the attempts of one page fetch are sequential.  At most one is in  *)
(* flight at any moment; an attempt is issued one at a time, either when   *)
(* nothing is in flight or in the step in which the one in flight          *)
(* completes; and after an attempt that has a backoff delay the next is    *)
(* issued only from the elapsed delay, with one delay awaited per such     *)
(* attempt.                                                                *)
C24_AttemptsSequential ==
  /\ [](/\ Cardinality(inflight) <= 1
        /\ inflight # {} => (inflight = {Last(log)} /\ pc \in {"provider", "direct", "relay", "axios"}))
  /\ [][log' # log =>
           /\ log' = Append(log, Last(log'))
           /\ inflight' = {Last(log')}
           /\ \/ inflight = {}
              \/ /\ pc \in {"provider", "direct"}
                 /\ outcome' \in AxiosOutcomes
                 /\ Last(log') # Last(log)
           /\ (log # <<>> /\ (rev = "part_000" \/ Last(log).strategy = "relay")) =>
                /\ pc \in {"backoff", "sleep"}
                /\ inflight = {}
                /\ Len(sleeps) = DelayedAttempts]_vars

\* the second try of the second relay is in flight, after five attempts
\* that ended and three delays that elapsed
C24_Witness ==
  /\ rev = "part_001" /\ pc = "relay"
  /\ Len(log) = 6 /\ log[1].strategy = "provider"
  /\ Len(sleeps) = 3
  /\ inflight = {Last(log)}

----------------------------------------------------------------------------
(* Properties of a request whose client went away                          *)

(* C25: once the client has disconnected, a relay writes no further byte   *)
(* to it, and a fetch chain that was in flight for it issues no further    *)
(* attempt.                                                                *)
C25_NothingAfterDisconnect ==
  [][aborted => (written' = written /\ log' = log)]_vars

----------------------------------------------------------------------------
(* Termination of robustFetchPage                                          *)

\* 1 provider attempt + 1 direct attempt + 2 attempts per relay
MaxAttempts == 1 + 1 + 2 * Len(FREE_PROXIES)

(* C26: robustFetchPage terminates when every attempt ends: it makes at    *)
(* most 1 provider attempt, 1 direct attempt and 2 attempts per relay, 8   *)
(* in all, the request is eventually answered, and the fetcher has then    *)
(* returned either HTML or the exhaustion failure.                         *)
C26_FetchTerminates ==
  /\ [](/\ Len(log) <= MaxAttempts
        /\ Count("provider") <= 1
        /\ Count("direct") <= 1
        /\ \A k \in 1..Len(FREE_PROXIES) : CountRelay(k) <= 2)
  /\ <>(pc = "done")
  /\ []((pc = "done" /\ log # <<>>) =>
          \/ fetched.html # <<>> /\ fetched.error = "" /\ ~fetched.thrown
          \/ fetched.html = <<>> /\ fetched.error = "All fetch attempts failed" /\ ~fetched.thrown)

\* all eight attempts were made and the fetcher returned the exhaustion failure
C26_Witness ==
  /\ pc = "done"
  /\ Len(log) = MaxAttempts
  /\ fetched.error = "All fetch attempts failed"
  /\ ~IsSuccess(outcome)

====
